---- MODULE Spec2Model ----
(***************************************************************************)
(* A model of the HarMind agent core:                                      *)
(*   - runHarAgent, the bounded tool-calling loop (services/geminiService) *)
(*     in its two revisions: the one taking a callbacks object with        *)
(*     onToolUpdate (lines 35-154) and the earlier one taking a positional *)
(*     onDataExtracted callback (lines 189-277);                           *)
(*   - handleAddEntity, the knowledge-graph merge with auto-linking        *)
(*     (App.tsx), and the chat panel's adapter that feeds it;              *)
(*   - kg_create_node, the graph tool that appends a node;                 *)
(*   - run_extraction_code and summarizeJsonStructure;                     *)
(*   - the Knowledge DB rows, their tools and the Pipeline Editor;         *)
(*   - the project store with its debounced save, and the chat panel.      *)
(***************************************************************************)
EXTENDS Integers, Sequences, FiniteSets, TLC

VARIABLES
    knowledgeData,      \* [nodes |-> Seq(entity), links |-> Seq(link)]
    lastOp,             \* what is remembered of the last graph operation
    revision,           \* which runHarAgent is running
    hasOnToolUpdate,    \* callbacks.onToolUpdate was supplied
    hasOnDataExtracted, \* an onDataExtracted callback was supplied
    sendsIds,           \* the model's function calls carry an id
    pc,                 \* position of runHarAgent
    turns,              \* the loop's turn counter
    response,           \* response.functionCalls of the last model response
    callIdx,            \* index of the call being dispatched (for .. of)
    result,             \* the local `result` of the call being dispatched
    functionResponses,  \* responses collected in this iteration
    sentCount,          \* number of tool-result messages sent to the model
    lastSent,           \* the last tool-result message sent to the model
    events,             \* what happened in the current iteration, in order
    harEntries,         \* the dataset: the HAR records of the active project
    scrapingEntries,    \* the Knowledge DB rows of the active project
    idsIssued,          \* how many ids crypto.randomUUID() has handed out
    projects,           \* the store's project list: the ids it shows
    storage,            \* the persisted projects: id -> the copy saved
    activeProject,      \* the open project's in-memory copy, or NoProject
    saveTimeout,        \* the debounce timer: <<>> or <<the copy it will save>>
    pendingInits,       \* init() calls in flight: reading, or holding what they read
    pendingDeletes,     \* deleteProject calls in flight: [id, phase]
    deleteCalled,       \* the ids deleteProject was called with
    latest,             \* id -> the copy the last mutation of the project made
    storeError,         \* the store's error / the panel's import error
    projectsIssued,     \* how many project ids have been handed out
    loading,            \* the chat panel's loading flag
    messages,           \* the chat panel's messages: their roles, in order
    agentRuns           \* runHarAgent invocations of the chat panel in flight

graphVars == <<knowledgeData, lastOp>>
agentVars == <<revision, hasOnToolUpdate, hasOnDataExtracted, sendsIds, pc, turns,
               response, callIdx, result, functionResponses, sentCount, lastSent,
               events>>
projectVars == <<projects, storage, activeProject, saveTimeout, pendingInits,
                 pendingDeletes, deleteCalled, latest, storeError, projectsIssued>>
chatVars == <<loading, messages, agentRuns>>
appVars == <<projectVars, chatVars>>
storeVars == <<harEntries, scrapingEntries, idsIssued, appVars>>
vars == <<knowledgeData, lastOp, revision, hasOnToolUpdate, hasOnDataExtracted,
          sendsIds, pc, turns, response, callIdx, result, functionResponses,
          sentCount, lastSent, events, harEntries, scrapingEntries, idsIssued,
          projects, storage, activeProject, saveTimeout, pendingInits,
          pendingDeletes, deleteCalled, latest, storeError, projectsIssued,
          loading, messages, agentRuns>>

----------------------------------------------------------------------------
(* Bounds of the model *)

\* most function calls in one model response
MaxCalls == 2
\* most nodes the graph is let grow to
MaxNodes == 3
\* most links the graph is let grow to
MaxLinks == 3

\* the most records a dataset holds
MaxEntries == 3

\* the deepest nesting of a JSON value summarized
MaxNesting == 7

\* the most rows ever synced into the Knowledge DB
MaxRows == 2

\* the most mutations one copy of a project sees
MaxEdits == 2

\* the most projects ever created
MaxProjects == 3

\* the most init() calls in flight
MaxPending == 1

\* the most messages the user sends in the chat panel
MaxSends == 3

\* the loop's ceiling: `turns < 5`
MaxTurns == 5

\* the limits of the summarizer of unnamed/part_003: `obj.length > 100` and
\* `depth > 5`
StringThreshold == 100
DepthCeiling == 5

----------------------------------------------------------------------------
(* JavaScript values *)

\* the value of a missing property
Undefined == "undefined"

\* JSON strings that occur as values of data fields
StringValues == {"p1", "t1"}
\* a JSON value that is not a string (a number)
NonStringValues == {"#7"}

\* typeof value === 'string'
IsString(v) == v \in StringValues \cup {""}

\* the truthiness `a || b` tests
Truthy(v) == v # Undefined /\ v # ""

\* property names, as their characters
KeyId == <<"i", "d">>
KeyProjectId == <<"p", "r", "o", "j", "e", "c", "t", "I", "d">>
KeyName == <<"n", "a", "m", "e">>
KeyValid == <<"v", "a", "l", "i", "d">>
KeyType == <<"t", "y", "p", "e">>
KeyLabel == <<"l", "a", "b", "e", "l">>
KeyTitle == <<"t", "i", "t", "l", "e">>

\* String.prototype.endsWith
EndsWith(s, suffix) ==
    /\ Len(s) >= Len(suffix)
    /\ SubSeq(s, Len(s) - Len(suffix) + 1, Len(s)) = suffix

\* obj[key] of a data map kept as a sequence of <<key, value>> in insertion order
Get(data, key) ==
    IF \E i \in 1..Len(data) : data[i][1] = key
    THEN data[CHOOSE i \in 1..Len(data) : data[i][1] = key][2]
    ELSE Undefined

\* Array.prototype.find over the outcomes of its predicate on each element: the
\* index of the first element it accepts; 0 when there is none (undefined)
FindIndex(accepted) ==
    IF \E i \in 1..Len(accepted) : accepted[i]
    THEN CHOOSE i \in 1..Len(accepted) : accepted[i] /\ \A j \in 1..(i - 1) : ~accepted[j]
    ELSE 0

----------------------------------------------------------------------------
(* The knowledge graph: handleAddEntity (App.tsx) *)

\* an ExtractedEntity
Entity(id, type, label, data) == [id |-> id, type |-> type, label |-> label, data |-> data]

\* a KnowledgeLink
Link(source, target, label) == [source |-> source, target |-> target, label |-> label]

\* a condition that looks at the key "id" alone
IsIdLikeEntryIdOnly(key, value) == IsString(value) /\ key = KeyId

\* the condition under which a data entry is looked at for auto-linking
IsIdLikeEntry(key, value) ==
    IsString(value) /\ (EndsWith(key, <<"I", "d">>) \/ key = KeyId)

\* a linker whose reverse check runs only when the forward check found nothing
LinksOfEntryExclusive(entity, key, value, nextNodes) ==
    IF ~IsIdLikeEntry(key, value) THEN <<>>
    ELSE
        LET IsTarget(n) == n.id = value /\ n.id # entity.id
            IsSource(n) == Get(n.data, KeyId) = value /\ n.id # entity.id
            t == FindIndex([i \in 1..Len(nextNodes) |-> IsTarget(nextNodes[i])])
            s == FindIndex([i \in 1..Len(nextNodes) |-> IsSource(nextNodes[i])])
        IN  IF t # 0 THEN <<Link(entity.id, nextNodes[t].id, key)>>
            ELSE IF s # 0 THEN <<Link(nextNodes[s].id, entity.id, key)>> ELSE <<>>

\* a linker whose finds do not exclude the entity itself
LinksOfEntryWithSelf(entity, key, value, nextNodes) ==
    IF ~IsIdLikeEntry(key, value) THEN <<>>
    ELSE
        LET t == FindIndex([i \in 1..Len(nextNodes) |-> nextNodes[i].id = value])
            s == FindIndex([i \in 1..Len(nextNodes) |->
                                Get(nextNodes[i].data, KeyId) = value])
        IN  (IF t # 0 THEN <<Link(entity.id, nextNodes[t].id, key)>> ELSE <<>>)
            \o (IF s # 0 THEN <<Link(nextNodes[s].id, entity.id, key)>> ELSE <<>>)

\* the links one data entry [key, value] of `entity` appends: the forward check,
\* then the reverse check
LinksOfEntry(entity, key, value, nextNodes) ==
    IF ~IsIdLikeEntry(key, value) THEN <<>>
    ELSE
        LET IsTarget(n) == n.id = value /\ n.id # entity.id
            IsSource(n) == Get(n.data, KeyId) = value /\ n.id # entity.id
            t == FindIndex([i \in 1..Len(nextNodes) |-> IsTarget(nextNodes[i])])
            s == FindIndex([i \in 1..Len(nextNodes) |-> IsSource(nextNodes[i])])
        IN  (IF t # 0 THEN <<Link(entity.id, nextNodes[t].id, key)>> ELSE <<>>)
            \o (IF s # 0 THEN <<Link(nextNodes[s].id, entity.id, key)>> ELSE <<>>)

\* Object.entries(entity.data).forEach(...): the links all entries append, in order
RECURSIVE LinksOfEntries(_, _, _)
LinksOfEntries(entity, entries, nextNodes) ==
    IF entries = <<>> THEN <<>>
    ELSE LinksOfEntry(entity, Head(entries)[1], Head(entries)[2], nextNodes)
         \o LinksOfEntries(entity, Tail(entries), nextNodes)

\* a node branch that lets the later entity replace the node of the same id
AddNodeOverwriting(nextNodes, entity) ==
    LET found == FindIndex([i \in 1..Len(nextNodes) |-> nextNodes[i].id = entity.id])
    IN  IF found = 0 THEN Append(nextNodes, entity)
        ELSE [nextNodes EXCEPT ![found] = entity]

\* the node branch of the forEach body: push unless a node has the id
AddNode(nextNodes, entity) ==
    LET found == FindIndex([i \in 1..Len(nextNodes) |-> nextNodes[i].id = entity.id])
    IN  IF found = 0 THEN Append(nextNodes, entity) ELSE nextNodes

\* newEntities.forEach(entity => ...) over the accumulators nextNodes, nextLinks
RECURSIVE MergeEntities(_, _, _)
MergeEntities(newEntities, nextNodes, nextLinks) ==
    IF newEntities = <<>> THEN [nodes |-> nextNodes, links |-> nextLinks]
    ELSE
        LET entity == Head(newEntities)
            nodes1 == AddNode(nextNodes, entity)
            links1 == nextLinks \o LinksOfEntries(entity, entity.data, nodes1)
        IN  MergeEntities(Tail(newEntities), nodes1, links1)

\* the state updater handleAddEntity hands to setKnowledgeData
HandleAddEntity(prev, newEntities) ==
    MergeEntities(newEntities, prev.nodes, prev.links)

\* the callback the chat panel hands to runHarAgent: adapt the extracted items
\* to entities (id: d.id || generated, ...), data being the item itself
AdaptExtracted(extractedData, now) ==
    [i \in 1..Len(extractedData) |->
        LET d == extractedData[i]
            idx == ToString(i - 1)
        IN  Entity(
              IF Truthy(Get(d, KeyId)) THEN Get(d, KeyId)
              ELSE "extracted-" \o ToString(now) \o "-" \o idx,
              IF Truthy(Get(d, KeyType)) THEN Get(d, KeyType) ELSE "ExtractedItem",
              IF Truthy(Get(d, KeyLabel)) THEN Get(d, KeyLabel)
              ELSE IF Truthy(Get(d, KeyName)) THEN Get(d, KeyName)
              ELSE IF Truthy(Get(d, KeyTitle)) THEN Get(d, KeyTitle)
              ELSE "Item " \o idx,
              d)]

\* kgCreateNodeImpl's updater: append the node, whatever the list holds
KgCreateNode(prev, id, type, label, data) ==
    [prev EXCEPT !.nodes = Append(prev.nodes, Entity(id, type, label, data))]

\* kgCreateNodeImpl's id: args.id || `node-${Date.now()}-${random}`
KgNodeId(argId, now, rnd) ==
    IF Truthy(argId) THEN argId ELSE "node-" \o ToString(now) \o "-" \o rnd

----------------------------------------------------------------------------
(* Inputs of the graph operations *)

\* entities handed to handleAddEntity
EntityPool ==
    { Entity("p1", "Project", "p1", <<>>),
      Entity("p1", "Other", "changed", << <<KeyName, "t1">> >>),
      Entity("t1", "Task", "t1", << <<KeyProjectId, "p1">> >>),
      Entity("x1", "Ref", "x1",
             << <<KeyId, "t1">>, <<KeyValid, "p1">>, <<KeyProjectId, "#7">> >>) }

\* the sequences over S of length 1..n
SeqsUpTo(S, n) == UNION { [1..k -> S] : k \in 1..n }

\* the sizes of the batches merged
BatchLengths == {1, 2}

EntityBatches == UNION { [1..k -> EntityPool] : k \in BatchLengths }

\* items a script can extract (the `d` of the chat panel's adapter)
RawItems ==
    { << <<KeyId, "p1">> >>,
      << <<KeyId, "t1">>, <<KeyProjectId, "p1">> >>,
      << <<KeyName, "t1">> >>,
      << <<KeyId, "#7">>, <<KeyType, "Task">> >> }

RawBatches == UNION { [1..k -> RawItems] : k \in BatchLengths }

\* the values Date.now() takes
NowValues == {1, 2}

\* arguments of kg_create_node
KgNodeIdArgs == {Undefined, "p1"}
RandomSuffixes == {"a1b2c"}

\* the ids of the nodes of a graph
NodeIds(kd) == { kd.nodes[i].id : i \in 1..Len(kd.nodes) }

\* what is remembered of the last graph operation: its kind, the size of its
\* batch, the size of the graph before it, and how many entities of the batch
\* had an id the graph already held
OpRecord(op, kd, batch) ==
    [op |-> op, len |-> Len(batch),
     nodesBefore |-> Len(kd.nodes), linksBefore |-> Len(kd.links),
     hits |-> Cardinality({ i \in 1..Len(batch) : batch[i].id \in NodeIds(kd) })]

NoOp == [op |-> "none", len |-> 0, nodesBefore |-> 0, linksBefore |-> 0, hits |-> 0]

----------------------------------------------------------------------------
(* Graph operations as actions *)

\* handleAddEntity(newEntities)
HandleAddEntityStep ==
    \E batch \in EntityBatches :
        /\ knowledgeData' = HandleAddEntity(knowledgeData, batch)
        /\ Len(knowledgeData'.nodes) <= MaxNodes
        /\ Len(knowledgeData'.links) <= MaxLinks
        /\ lastOp' = OpRecord("handleAddEntity", knowledgeData, batch)
        /\ UNCHANGED <<agentVars, storeVars>>

\* the chat panel's onDataExtracted callback: adapt, then handleAddEntity
ExtractDataStep ==
    \E raw \in RawBatches, now \in NowValues :
        /\ knowledgeData' = HandleAddEntity(knowledgeData, AdaptExtracted(raw, now))
        /\ lastOp' = OpRecord("handleAddEntity", knowledgeData, AdaptExtracted(raw, now))
        /\ Len(knowledgeData'.nodes) <= MaxNodes
        /\ Len(knowledgeData'.links) <= MaxLinks
        /\ UNCHANGED <<agentVars, storeVars>>

\* the tool kg_create_node
KgCreateNodeStep ==
    \E argId \in KgNodeIdArgs, now \in NowValues, rnd \in RandomSuffixes :
        /\ Len(knowledgeData.nodes) < MaxNodes
        /\ knowledgeData' =
               KgCreateNode(knowledgeData, KgNodeId(argId, now, rnd), "Task", "made", <<>>)
        /\ lastOp' = OpRecord("kg_create_node", knowledgeData, <<>>)
        /\ UNCHANGED <<agentVars, storeVars>>

----------------------------------------------------------------------------
(* Tools and their results *)

\* the two revisions of runHarAgent
RevCallbacks == "callbacks"
RevPositional == "positional"

\* a tool result, as far as the loop reads it: what kind of value it is, its
\* `error` ("" when absent), its `success` and its `data`
Result(tag, error, success, data) ==
    [tag |-> tag, error |-> error, success |-> success, data |-> data]

\* {error: message}
ErrorResult(msg) == Result("object", msg, "absent", <<>>)
\* runExtractionCodeImpl's {success: true, count, data, logs}
ExtractionOk(data) == Result("object", "", "true", data)
\* runExtractionCodeImpl's {success: false, error, logs}
ExtractionFail(msg) == Result("object", msg, "false", <<>>)
\* an object or array with neither `error` nor `success`
PlainObject == Result("object", "", "absent", <<>>)
\* null, as extractFirstObject(null) returns it
NullResult == Result("null", "", "absent", <<>>)
\* a string, number or boolean
PrimitiveResult == Result("primitive", "", "absent", <<>>)
\* the promise an async implementation returns when it is not awaited
PromiseResult == Result("promise", "", "absent", <<>>)
\* {success: true, count, sample: data.slice(0, 2)}
ExtractionSummary(data) ==
    Result("summary", "", "true", SubSeq(data, 1, IF Len(data) < 2 THEN Len(data) ELSE 2))

\* the own keys of toolImplementations, and the knowledge tools the system
\* instruction of the callbacks revision offers to the model
toolImplementations ==
    {"get_har_structure", "inspect_entry_schema", "get_response_content",
     "run_extraction_code", "find_similar_parser", "update_scraping_entry",
     "delete_scraping_entry", "execute_proxy_request"}
KnowledgeTools == {"db_look_request", "kg_fetch_nodes"}

\* properties every object literal inherits from Object.prototype: functions,
\* and `__proto__`, which is an object
InheritedFunctions == {"constructor", "toString"}
InheritedObjects == {"__proto__"}

\* toolImplementations[name]: what the lookup yields
LookupTool(name) ==
    IF name \in toolImplementations \cup KnowledgeTools THEN "tool"
    ELSE IF name \in InheritedFunctions THEN "inherited"
    ELSE IF name \in InheritedObjects THEN "not_callable"
    ELSE "undefined"

\* how a call of an implementation ends
Returns(value, async) == [how |-> "returns", value |-> value, async |-> async, msg |-> ""]
Throws(msg) == [how |-> "throws", value |-> PlainObject, async |-> FALSE, msg |-> msg]
Rejects(msg) == [how |-> "rejects", value |-> PlainObject, async |-> TRUE, msg |-> msg]

\* what scripts extract in a run of the agent
AgentBatches == { << << <<KeyId, "p1">> >>, << <<KeyId, "t1">> >> >> }

\* the ways a call of toolFunc(harData, args) can end, by the name looked up
ToolOutcomes(name) ==
    CASE name = "run_extraction_code" ->
             { Returns(ExtractionOk(b), FALSE) : b \in AgentBatches }
             \cup { Returns(ExtractionFail("boom"), FALSE) }
      [] name = "db_look_request" ->
             { Returns(ErrorResult("Entry not found"), FALSE),
               Returns(NullResult, FALSE),
               Throws("Cannot read properties of undefined") }
      [] name = "kg_fetch_nodes" ->
             { Returns(PlainObject, TRUE),
               Rejects("Cannot read properties of undefined") }
      [] name = "constructor" -> { Returns(PlainObject, FALSE) }
      [] name = "toString" -> { Returns(PrimitiveResult, FALSE) }
      [] OTHER -> { Returns(PlainObject, FALSE) }

\* the tool names the model asks for
RequestedNames ==
    {"run_extraction_code", "db_look_request", "kg_fetch_nodes", "no_such_tool",
     "constructor", "__proto__"}

\* response.functionCalls: up to MaxCalls calls
Responses == {<<>>} \cup SeqsUpTo(RequestedNames, MaxCalls)

\* call.id of the k-th call of a turn (undefined when the model sends none)
CallFieldId(turn, k) ==
    IF sendsIds THEN "fc-" \o ToString(turn) \o "-" \o ToString(k) ELSE Undefined

\* const callId = call.id || `call_${Date.now()}_${Math.random()}`
CallId(turn, k) ==
    IF Truthy(CallFieldId(turn, k)) THEN CallFieldId(turn, k)
    ELSE "call_" \o ToString(turn) \o "_" \o ToString(k)

\* status: result.error || (result.success === false) ? 'error' : 'success'
StatusOf(res) ==
    IF Truthy(res.error) \/ res.success = "false" THEN "error" ELSE "success"

\* reading a property of null or undefined raises a TypeError
PropertyReadThrows(res) == res.tag = "null"

\* an entry of the iteration's log
Event(kind, k, id, status, res) ==
    [kind |-> kind, k |-> k, id |-> id, status |-> status, result |-> res]

NoResult == Result("none", "", "absent", <<>>)

----------------------------------------------------------------------------
(* The project the panels work on (store/projectStore.ts) *)

\* a ProjectData: its id, and its content and updatedAt as the number of
\* mutations the copy has seen
Project(id, edits) == [id |-> id, edits |-> edits]

\* activeProject: null
NoProject == Project(0, 0)

\* one project, created, saved and open; nothing in flight; the chat panel
\* waits for input
OneProjectOpen ==
    /\ projects = {1}
    /\ storage = (1 :> Project(1, 0))
    /\ activeProject = Project(1, 0)
    /\ saveTimeout = <<>>
    /\ pendingInits = {}
    /\ pendingDeletes = {}
    /\ deleteCalled = {}
    /\ latest = <<>>
    /\ storeError = ""
    /\ projectsIssued = 1
    /\ loading = FALSE
    /\ messages = <<>>
    /\ agentRuns = 0

----------------------------------------------------------------------------
(* runHarAgent *)

\* a new project: no records, no rows (createProject)
StoreEmpty ==
    /\ harEntries = <<>>
    /\ scrapingEntries = <<>>
    /\ idsIssued = 0
    /\ OneProjectOpen

\* the name of the call the for-loop is at
CurrentName == response[callIdx]

\* the chat has been created and the initial message sent; the graph is empty
Init ==
    /\ knowledgeData = [nodes |-> <<>>, links |-> <<>>]
    /\ lastOp = NoOp
    /\ StoreEmpty
    /\ revision \in {RevCallbacks, RevPositional}
    /\ hasOnToolUpdate \in BOOLEAN
    /\ hasOnDataExtracted \in BOOLEAN
    \* the positional revision takes no notifier; the callbacks revision never
    \* reads onDataExtracted, so it is taken as supplied; without a notifier
    \* callId is not used, so the calls are taken to carry ids
    /\ (revision = RevPositional => ~hasOnToolUpdate)
    /\ (revision = RevCallbacks => hasOnDataExtracted)
    /\ sendsIds \in BOOLEAN
    /\ (~hasOnToolUpdate => sendsIds)
    /\ pc = "await_model"
    /\ turns = 0
    /\ response = <<>>
    /\ callIdx = 0
    /\ result = NoResult
    /\ functionResponses = <<>>
    /\ sentCount = 0
    /\ lastSent = <<>>
    /\ events = <<>>

\* `response = await chat.sendMessage(...)` resolves with the model's response
ModelResponds ==
    /\ pc = "await_model"
    /\ \E r \in Responses : response' = r
    /\ pc' = "check"
    \* the message has been delivered; the iteration's locals are out of scope
    /\ lastSent' = <<>>
    /\ functionResponses' = <<>>
    /\ events' = <<>>
    /\ UNCHANGED <<storeVars, graphVars, revision, hasOnToolUpdate, hasOnDataExtracted, sendsIds,
                   turns, callIdx, result, sentCount>>

\* a loop condition that lets the counter reach the ceiling and pass it
LoopConditionOffByOne == Len(response) > 0 /\ turns <= MaxTurns

\* response.functionCalls && response.functionCalls.length > 0 && turns < 5
LoopCondition == Len(response) > 0 /\ turns < MaxTurns

\* a body that forgets to count the turn
TurnNotCounted == turns

\* turns++
TurnCounted == turns + 1

\* the while condition: enter the body (turns++) or fall through to the return
LoopCheck ==
    /\ pc = "check"
    /\ IF LoopCondition
       THEN /\ turns' = TurnCounted
            /\ functionResponses' = <<>>
            /\ events' = <<>>
            /\ callIdx' = 1
            /\ pc' = "dispatch"
       ELSE /\ pc' = "returned"
            /\ UNCHANGED <<turns, functionResponses, events, callIdx>>
    /\ UNCHANGED <<storeVars, graphVars, revision, hasOnToolUpdate, hasOnDataExtracted, sendsIds,
                   response, result, sentCount, lastSent>>

\* the 'pending' notification, when a notifier was given (callbacks revision)
PendingEvents ==
    IF revision = RevCallbacks /\ hasOnToolUpdate
    THEN <<Event("pending", callIdx, CallId(turns, callIdx), "pending", NoResult)>>
    ELSE <<>>

\* the head of the for body, up to the call of the implementation: notify
\* 'pending', look the tool up, and call it if there is something to call
DispatchCall ==
    /\ pc = "dispatch"
    /\ LET found == LookupTool(CurrentName)
       IN  CASE found \in {"tool", "inherited"} ->
                    /\ events' = events \o PendingEvents
                                 \o <<Event("invoke", callIdx, CallId(turns, callIdx),
                                            "", NoResult)>>
                    /\ result' = ErrorResult("Unknown function")
                    /\ pc' = "running"
             [] found = "not_callable" ->
                    /\ events' = events \o PendingEvents
                    /\ result' = ErrorResult("toolFunc is not a function")
                    /\ pc' = "finish"
             [] OTHER ->
                    /\ events' = events \o PendingEvents
                    /\ result' = ErrorResult("Tool not implemented.")
                    /\ pc' = "finish"
    /\ UNCHANGED <<storeVars, graphVars, revision, hasOnToolUpdate, hasOnDataExtracted, sendsIds,
                   turns, response, callIdx, functionResponses, sentCount, lastSent>>

\* the value of `result` once the implementation's call has ended, before the
\* positional revision's extraction branch
SettledResult(o) ==
    IF revision = RevCallbacks
    THEN \* result = await toolFunc(...), in try/catch
         IF o.how = "returns" THEN o.value ELSE ErrorResult(o.msg)
    ELSE \* result = toolFunc(...), not awaited
         IF o.how = "throws" THEN ErrorResult(o.msg)
         ELSE IF o.async THEN PromiseResult
         ELSE o.value

\* whether the extraction is handed to onDataExtracted: only the positional
\* revision has the branch
RoutesExtraction(name, res) ==
    /\ revision = RevPositional
    /\ name = "run_extraction_code"
    /\ res.success = "true"
    /\ hasOnDataExtracted

\* the implementation's call ends (returns, throws; resolves or rejects)
ToolSettles ==
    /\ pc = "running"
    /\ \E o \in ToolOutcomes(CurrentName), now \in NowValues :
         LET res == SettledResult(o)
             ret == Event("return", callIdx, CallId(turns, callIdx), o.how, res)
         IN  IF RoutesExtraction(CurrentName, res)
             THEN LET batch == AdaptExtracted(res.data, now)
                  IN  /\ knowledgeData' = HandleAddEntity(knowledgeData, batch)
                      /\ lastOp' = OpRecord("handleAddEntity", knowledgeData, batch)
                      /\ events' = events \o
                             <<ret, Event("extracted", callIdx, CallId(turns, callIdx),
                                          "", res)>>
                      /\ result' = ExtractionSummary(res.data)
             ELSE /\ UNCHANGED graphVars
                  /\ events' = Append(events, ret)
                  /\ result' = res
    /\ pc' = "finish"
    /\ UNCHANGED <<storeVars, revision, hasOnToolUpdate, hasOnDataExtracted, sendsIds, turns,
                   response, callIdx, functionResponses, sentCount, lastSent>>

\* the functionResponse pushed for the current call
FunctionResponse == [id |-> CallFieldId(turns, callIdx), name |-> CurrentName,
                     result |-> result]

\* a push at the front of the list
PushedInFront(list, r) == <<r>> \o list

\* functionResponses.push(r)
Pushed(list, r) == Append(list, r)

\* the tail of the for body: notify 'success' or 'error', push the response
FinishCall ==
    /\ pc = "finish"
    /\ IF revision = RevCallbacks /\ hasOnToolUpdate /\ PropertyReadThrows(result)
       THEN \* result.error of null: the TypeError leaves runHarAgent
            /\ pc' = "threw"
            /\ UNCHANGED <<events, functionResponses, callIdx>>
       ELSE /\ events' =
                 IF revision = RevCallbacks /\ hasOnToolUpdate
                 THEN Append(events, Event("finished", callIdx, CallId(turns, callIdx),
                                           StatusOf(result), result))
                 ELSE events
            /\ functionResponses' = Pushed(functionResponses, FunctionResponse)
            /\ callIdx' = callIdx + 1
            /\ pc' = IF callIdx < Len(response) THEN "dispatch" ELSE "send"
    /\ UNCHANGED <<storeVars, graphVars, revision, hasOnToolUpdate, hasOnDataExtracted, sendsIds,
                   turns, response, result, sentCount, lastSent>>

\* chat.sendMessage({message: functionResponses}) is issued; the count of sends
\* is an observation of the run and is kept up to one past the ceiling
SendToolResults ==
    /\ pc = "send"
    /\ sentCount' = IF sentCount <= MaxTurns THEN sentCount + 1 ELSE sentCount
    /\ lastSent' = functionResponses
    /\ pc' = "await_model"
    /\ UNCHANGED <<storeVars, graphVars, revision, hasOnToolUpdate, hasOnDataExtracted, sendsIds,
                   turns, response, callIdx, result, functionResponses, events>>

Next ==
    \/ ModelResponds
    \/ LoopCheck
    \/ DispatchCall
    \/ ToolSettles
    \/ FinishCall
    \/ SendToolResults

Spec == Init /\ [][Next]_vars

\* every await resolves and the loop's own steps are taken
FairSpec == Spec /\ WF_vars(Next)

----------------------------------------------------------------------------
(* The graph on its own *)

\* no agent is running
AgentIdle ==
    /\ revision = RevCallbacks
    /\ hasOnToolUpdate = FALSE
    /\ hasOnDataExtracted = FALSE
    /\ sendsIds = FALSE
    /\ pc = "idle"
    /\ turns = 0
    /\ response = <<>>
    /\ callIdx = 0
    /\ result = NoResult
    /\ functionResponses = <<>>
    /\ sentCount = 0
    /\ lastSent = <<>>
    /\ events = <<>>

\* the empty graph of a new project
InitGraph ==
    /\ knowledgeData = [nodes |-> <<>>, links |-> <<>>]
    /\ lastOp = NoOp
    /\ AgentIdle
    /\ StoreEmpty

\* handleAddEntity alone (App.tsx)
NextLinker == HandleAddEntityStep

SpecLinker == InitGraph /\ [][NextLinker]_vars

\* the merge, the chat panel's adapter in front of it, and kg_create_node
NextGraph ==
    \/ HandleAddEntityStep
    \/ ExtractDataStep
    \/ KgCreateNodeStep

SpecGraph == InitGraph /\ [][NextGraph]_vars

\* the graph as the chat panel alone feeds it: every node's data is the extracted
\* item itself, so a node that came with an id holds it in data.id too
NextAdapter == ExtractDataStep

SpecAdapter == InitGraph /\ [][NextAdapter]_vars

----------------------------------------------------------------------------
(* The extraction tool: runExtractionCodeImpl (tools/dataExtractor.ts) *)

\* a HarEntryWrapper, as far as the tools read it: its _index and _selected
HarRecord(index, selected) == [index |-> index, selected |-> selected]

\* a filter applied whether or not a record is selected
ActiveEntriesFilteredAlways(entries) ==
    LET IsSelected(e) == e.selected
    IN  SelectSeq(entries, IsSelected)

\* harEntries.some(e => e._selected) ? harEntries.filter(e => e._selected)
\*                                   : harEntries
ActiveEntries(entries) ==
    LET IsSelected(e) == e.selected
    IN  IF \E i \in 1..Len(entries) : entries[i].selected
        THEN SelectSeq(entries, IsSelected)
        ELSE entries

\* entries.map(e => e._index)
IndexesOf(entries) == [i \in 1..Len(entries) |-> entries[i].index]

\* a JavaScript value a script returns: an array, or something else
JsArray(items) == [kind |-> "array", items |-> items]
JsNumber == [kind |-> "number", items |-> <<>>]
JsUndefined == [kind |-> "undefined", items |-> <<>>]

\* model-authored scripts, by what they do with `entries`, `results` and `log`:
\*   touch : "none", "pop" (entries.pop() at its end) or "unmark" (clear
\*           _selected on each entry at its end)
\*   push  : "none", "item" (results.push(item)) or "entries" (push each _index)
\*   log   : whether log(...) is called once
\*   end   : "return_entries" (return entries.map(...)), "return_item" (return
\*           [item]), "return_number" (return 5), "fall_off" (no return),
\*           "throw_error" (throw new Error("boom")), "throw_string" (throw "boom")
ScriptTouches == {"none", "pop", "unmark"}
ScriptPushes == {"none", "item", "entries"}
ScriptEnds ==
    {"return_entries", "return_item", "return_number", "fall_off",
     "throw_error", "throw_string"}
Scripts ==
    [touch : ScriptTouches, push : ScriptPushes, log : BOOLEAN, end : ScriptEnds]

ScriptThrows(script) == script.end \in {"throw_error", "throw_string"}

\* the value of the IIFE around the script: userResult
UserResult(script, entries) ==
    CASE script.end = "return_entries" -> JsArray(IndexesOf(entries))
      [] script.end = "return_item" -> JsArray(<<"item">>)
      [] script.end = "return_number" -> JsNumber
      [] OTHER -> JsUndefined

\* the contents of `results` when the script is over
PushedResults(script, entries) ==
    CASE script.push = "item" -> <<"item">>
      [] script.push = "entries" -> IndexesOf(entries)
      [] OTHER -> <<>>

\* the contents of `logs` when the script is over
LogsOf(script) == IF script.log THEN <<"logged">> ELSE <<>>

\* e.message of what the script threw: a string thrown has no message
MessageOf(script) == IF script.end = "throw_error" THEN "boom" ELSE Undefined

\* a wrapper that inlines the script instead of calling it: what the script
\* returns is what the function returns
ExtractedInline(script, entries) ==
    IF script.end \in {"return_entries", "return_item", "return_number"}
    THEN UserResult(script, entries)
    ELSE JsArray(PushedResults(script, entries))

\* the body of safeCode: the script's array if it returned one, else `results`
Extracted(script, entries) ==
    IF UserResult(script, entries).kind = "array"
    THEN UserResult(script, entries)
    ELSE JsArray(PushedResults(script, entries))

\* runExtractionCodeImpl(harEntries, {code}): its return value
RunExtractionCodeImpl(entries, script) ==
    IF ScriptThrows(script)
    THEN [success |-> FALSE, error |-> MessageOf(script), logs |-> LogsOf(script)]
    ELSE LET extracted == Extracted(script, ActiveEntries(entries))
         IN  [success |-> TRUE,
              count |-> IF extracted.kind = "array" THEN Len(extracted.items)
                        ELSE Undefined,
              data |-> extracted,
              logs |-> LogsOf(script)]

\* the dataset after the call. With no record selected the script is handed
\* harEntries itself, so entries.pop() drops the dataset's last record; with a
\* selection it is handed a new array of the selected record objects, so writing
\* _selected on them writes the dataset's records
EntriesAfterScript(entries, script) ==
    IF \E i \in 1..Len(entries) : entries[i].selected
    THEN IF script.touch = "unmark"
         THEN [i \in 1..Len(entries) |-> [entries[i] EXCEPT !.selected = FALSE]]
         ELSE entries
    ELSE IF script.touch = "pop" /\ entries # <<>>
         THEN SubSeq(entries, 1, Len(entries) - 1)
         ELSE entries

\* the datasets of a project: records 1..n, none selected yet
Datasets == { [i \in 1..n |-> HarRecord(i, FALSE)] : n \in 0..MaxEntries }

\* toggleSelection(id) of the HAR viewer
ToggleSelectionStep ==
    \E i \in 1..Len(harEntries) :
        /\ harEntries' = [harEntries EXCEPT ![i].selected = ~harEntries[i].selected]
        /\ lastOp' = [op |-> "toggleSelection"]
        /\ UNCHANGED <<knowledgeData, scrapingEntries, idsIssued, agentVars, appVars>>

\* the tool run_extraction_code, called with the project's dataset
RunExtractionStep ==
    \E script \in Scripts :
        /\ lastOp' = [op |-> "run_extraction_code",
                      script |-> script,
                      before |-> harEntries,
                      handed |-> ActiveEntries(harEntries),
                      returned |-> RunExtractionCodeImpl(harEntries, script)]
        /\ harEntries' = EntriesAfterScript(harEntries, script)
        /\ UNCHANGED <<knowledgeData, scrapingEntries, idsIssued, agentVars, appVars>>

InitExtract ==
    /\ knowledgeData = [nodes |-> <<>>, links |-> <<>>]
    /\ lastOp = NoOp
    /\ AgentIdle
    /\ OneProjectOpen
    /\ harEntries \in Datasets
    /\ scrapingEntries = <<>>
    /\ idsIssued = 0

NextExtract == ToggleSelectionStep \/ RunExtractionStep

SpecExtract == InitExtract /\ [][NextExtract]_vars

----------------------------------------------------------------------------
(* The structural summarizer: summarizeJsonStructure (services/harUtils.ts) *)

\* JSON values: `t` is the type; a string is kept by its length, an array by its
\* elements, an object by its <<key, value>> pairs in insertion order
JsonNull == [t |-> "null", len |-> 0, items |-> <<>>]
JsonNumber == [t |-> "number", len |-> 0, items |-> <<>>]
JsonString(n) == [t |-> "string", len |-> n, items |-> <<>>]
JsonArray(items) == [t |-> "array", len |-> Len(items), items |-> items]
JsonObject(fields) == [t |-> "object", len |-> Len(fields), items |-> fields]

\* a summarizer that unwraps a non-empty array into its first element, as it is
RECURSIVE ExtractFirstObjectUnwrapping(_)
ExtractFirstObjectUnwrapping(jsonBody) ==
    CASE jsonBody.t = "array" ->
             IF jsonBody.len > 0 THEN jsonBody.items[1]
             ELSE JsonArray(<<>>)
      [] jsonBody.t = "object" ->
             JsonObject([i \in 1..jsonBody.len |->
                 <<jsonBody.items[i][1], ExtractFirstObjectUnwrapping(jsonBody.items[i][2])>>])
      [] OTHER -> jsonBody

\* a summarizer that puts a note on the number of elements next to the sample
RECURSIVE ExtractFirstObjectWithNote(_)
ExtractFirstObjectWithNote(jsonBody) ==
    CASE jsonBody.t = "array" ->
             IF jsonBody.len > 0
             THEN JsonArray(<<ExtractFirstObjectWithNote(jsonBody.items[1]), JsonString(18)>>)
             ELSE JsonArray(<<>>)
      [] jsonBody.t = "object" ->
             JsonObject([i \in 1..jsonBody.len |->
                 <<jsonBody.items[i][1], ExtractFirstObjectWithNote(jsonBody.items[i][2])>>])
      [] OTHER -> jsonBody

\* extractFirstObject: null and primitives as they are, an array cut to its
\* first element, an object key by key
RECURSIVE ExtractFirstObject(_)
ExtractFirstObject(jsonBody) ==
    CASE jsonBody.t = "null" -> jsonBody
      [] jsonBody.t \in {"string", "number"} -> jsonBody
      [] jsonBody.t = "array" ->
             IF jsonBody.len > 0 THEN JsonArray(<<ExtractFirstObject(jsonBody.items[1])>>)
             ELSE JsonArray(<<>>)
      [] jsonBody.t = "object" ->
             JsonObject([i \in 1..jsonBody.len |->
                 <<jsonBody.items[i][1], ExtractFirstObject(jsonBody.items[i][2])>>])

\* summarizeJsonStructure(obj, depth = 0): depth is not read
SummarizeJsonStructure(obj, depth) == ExtractFirstObject(obj)

\* the leaves of the inputs: null, a number, and strings of length 0, 100, 101
Leaves == {JsonNull, JsonNumber, JsonString(0), JsonString(100), JsonString(101)}

\* arrays of up to two leaves, and objects over the keys a, b
FlatArrays == { JsonArray(s) : s \in UNION { [1..n -> Leaves] : n \in 0..2 } }
FlatObjects ==
    {JsonObject(<<>>)}
    \cup { JsonObject(<< <<"a", x>> >>) : x \in Leaves }
    \cup { JsonObject(<< <<"a", x>>, <<"b", y>> >>) : x \in Leaves, y \in {JsonNull, JsonString(101)} }

\* one more level: arrays and objects of flat values
NestedValues ==
    { JsonArray(<<x>>) : x \in FlatArrays \cup FlatObjects }
    \cup { JsonArray(<<x, y>>) : x \in FlatObjects, y \in {JsonNumber, JsonArray(<<>>)} }
    \cup { JsonObject(<< <<"a", x>> >>) : x \in FlatArrays }

\* a long string under k levels, arrays and objects in turn
RECURSIVE Nested(_)
Nested(k) ==
    IF k = 0 THEN JsonString(101)
    ELSE IF k % 2 = 1 THEN JsonArray(<<Nested(k - 1), JsonNumber>>)
    ELSE JsonObject(<< <<"a", Nested(k - 1)>> >>)

JsonValues ==
    Leaves \cup FlatArrays \cup FlatObjects \cup NestedValues
    \cup { Nested(k) : k \in 1..MaxNesting }

\* summarizeJsonStructure(v) is called on a parsed body
SummarizeStep ==
    \E v \in JsonValues :
        /\ lastOp' = [op |-> "summarizeJsonStructure", again |-> FALSE,
                      input |-> v, output |-> SummarizeJsonStructure(v, 0)]
        /\ UNCHANGED <<knowledgeData, storeVars, agentVars>>

\* summarizeJsonStructure is called on the summary it has just returned
SummarizeAgainStep ==
    /\ lastOp.op = "summarizeJsonStructure"
    /\ ~lastOp.again
    /\ lastOp' = [op |-> "summarizeJsonStructure", again |-> TRUE,
                  input |-> lastOp.output,
                  output |-> SummarizeJsonStructure(lastOp.output, 0)]
    /\ UNCHANGED <<knowledgeData, storeVars, agentVars>>

NextSummarize == SummarizeStep \/ SummarizeAgainStep

SpecSummarize == InitGraph /\ [][NextSummarize]_vars

----------------------------------------------------------------------------
(* The Knowledge DB: ScrapingEntry rows (store/projectStore.ts, tools/knowledge_db) *)

\* ProcessingStatus, as far as the tools tell its values apart
Unprocessed == "unprocessed"
Filtered == "filtered"
Converted == "converted"
FinalResponse == "final_response"

\* `${e.request.method}:${urlObj.pathname}` of record e: the first two records
\* of a dataset are requests of one endpoint, the others of another
SourceTypeKey(e) == IF e.index <= 2 THEN "GET:/api/items" ELSE "POST:/api/orders"

\* a ScrapingEntry: its id, its group, its status, whether filterer_json has
\* keys, whether converter_code is non-empty, and is_deleted (absent counts as
\* false)
ScrapingEntry(id, key, status, hasFilter, hasConverter, deleted) ==
    [id |-> id, source_type_key |-> key, processing_status |-> status,
     has_filter |-> hasFilter, has_converter |-> hasConverter, is_deleted |-> deleted]

\* the rows syncHarToDb makes of `entries`, the k-th with the k-th fresh id
NewScrapingEntries(entries, issued) ==
    [k \in 1..Len(entries) |->
        ScrapingEntry(issued + k, SourceTypeKey(entries[k]), Unprocessed, FALSE, FALSE, FALSE)]

\* syncHarToDb's new list: the rows there were, then the new ones
SyncHarToDb(rows, entries, issued) == rows \o NewScrapingEntries(entries, issued)

\* the updates handed to updateScrapingEntry: a processing_status ("" when
\* there is none), a filterer_json ("none" when there is none, else "empty" for
\* {} or "keys" for an object with keys), a converter_code ("none", or "empty"
\* for the empty string, or "code"), and whether is_deleted: true is among them
RowUpdates(step, filtererJson, converterCode, isDeleted) ==
    [step |-> step, filterer_json |-> filtererJson, converter_code |-> converterCode,
     is_deleted |-> isDeleted]

\* db_delete_row's updates: {is_deleted: true}
SoftDelete == RowUpdates("", "none", "none", TRUE)

\* {...e, ...updates}
Updated(e, updates) ==
    [e EXCEPT !.processing_status = IF updates.step # "" THEN updates.step ELSE @,
              !.has_filter = IF updates.filterer_json = "none" THEN @
                             ELSE updates.filterer_json = "keys",
              !.has_converter = IF updates.converter_code = "none" THEN @
                                ELSE updates.converter_code = "code",
              !.is_deleted = IF updates.is_deleted THEN TRUE ELSE @]

\* updateScrapingEntry(id, updates): map over the rows
UpdateScrapingEntry(rows, id, updates) ==
    [i \in 1..Len(rows) |-> IF rows[i].id = id THEN Updated(rows[i], updates) ELSE rows[i]]

\* deleteScrapingEntry(id): filter the row out
DeleteScrapingEntry(rows, id) ==
    LET Other(e) == e.id # id
    IN  SelectSeq(rows, Other)

\* a listing that counts every row
RECURSIVE DbListTablesCountingAll(_, _)
DbListTablesCountingAll(rows, groups) ==
    IF rows = <<>> THEN groups
    ELSE LET e == Head(rows)
             at == FindIndex([g \in 1..Len(groups) |->
                                 groups[g].group_slug = e.source_type_key])
             opened == IF at # 0 THEN groups
                       ELSE Append(groups, [group_slug |-> e.source_type_key,
                                            status |-> e.processing_status,
                                            count |-> 0])
             slot == IF at # 0 THEN at ELSE Len(opened)
         IN  DbListTablesCountingAll(Tail(rows),
                 [opened EXCEPT ![slot].count = opened[slot].count + 1])

\* dbListTablesImpl's forEach over the rows, `groups` being the groups so far in
\* insertion order: deleted rows are skipped; a row opens its group if there is
\* none, is counted, and sets the group's status if it is final or has a filter
RECURSIVE DbListTables(_, _)
DbListTables(rows, groups) ==
    IF rows = <<>> THEN groups
    ELSE LET e == Head(rows)
             at == FindIndex([g \in 1..Len(groups) |->
                                 groups[g].group_slug = e.source_type_key])
             opened == IF at # 0 THEN groups
                       ELSE Append(groups, [group_slug |-> e.source_type_key,
                                            status |-> e.processing_status,
                                            count |-> 0])
             slot == IF at # 0 THEN at ELSE Len(opened)
             counted == [opened EXCEPT ![slot].count = opened[slot].count + 1]
             shown == IF e.processing_status = FinalResponse \/ e.has_filter
                      THEN [counted EXCEPT ![slot].status = e.processing_status]
                      ELSE counted
         IN  IF e.is_deleted THEN DbListTables(Tail(rows), groups)
             ELSE DbListTables(Tail(rows), shown)

\* dbListTablesImpl as it stands a second time in the file: the same grouping
\* and counting, and the group's status is set by final rows only
RECURSIVE DbListTablesFinalOnly(_, _)
DbListTablesFinalOnly(rows, groups) ==
    IF rows = <<>> THEN groups
    ELSE LET e == Head(rows)
             at == FindIndex([g \in 1..Len(groups) |->
                                 groups[g].group_slug = e.source_type_key])
             opened == IF at # 0 THEN groups
                       ELSE Append(groups, [group_slug |-> e.source_type_key,
                                            status |-> e.processing_status,
                                            count |-> 0])
             slot == IF at # 0 THEN at ELSE Len(opened)
             counted == [opened EXCEPT ![slot].count = opened[slot].count + 1]
             shown == IF e.processing_status = FinalResponse
                      THEN [counted EXCEPT ![slot].status = FinalResponse]
                      ELSE counted
         IN  IF e.is_deleted THEN DbListTablesFinalOnly(Tail(rows), groups)
             ELSE DbListTablesFinalOnly(Tail(rows), shown)

\* the URLs find_similar_parser is called with; the last has no scheme, and
\* new URL throws a TypeError for it
Urls == {"https://shop.example/api/items", "https://shop.example/api/orders", "/api/items"}

\* whether new URL(url) returns
UrlParses(url) == url \in {"https://shop.example/api/items", "https://shop.example/api/orders"}

\* new URL(url).pathname
Pathname(url) == IF url = "https://shop.example/api/items" THEN "/api/items" ELSE "/api/orders"

\* `${args.method}:${urlObj.pathname}`
TargetKey(url, method) == method \o ":" \o Pathname(url)

\* a lookup that takes the last of the matches
BestMatchLast(rows, targetKey) ==
    LET matches == {i \in 1..Len(rows) : /\ rows[i].source_type_key = targetKey
                                         /\ rows[i].processing_status = FinalResponse}
    IN  IF matches = {} THEN 0 ELSE CHOOSE i \in matches : \A j \in matches : j <= i

\* the place in `rows` of matches[0], the first row of the filter
\* source_type_key === targetKey && processing_status === FinalResponse;
\* 0 when matches is empty
BestMatch(rows, targetKey) ==
    FindIndex([i \in 1..Len(rows) |-> /\ rows[i].source_type_key = targetKey
                                      /\ rows[i].processing_status = FinalResponse])

\* findSimilarParserImpl: what the try block returns, or the catch's
\* {error: e.message}
FindSimilarParser(rows, url, method) ==
    IF ~UrlParses(url) THEN [error |-> "Invalid URL"]
    ELSE LET at == BestMatch(rows, TargetKey(url, method))
         IN  IF at = 0
             THEN [found |-> FALSE, message |-> "No similar processed entries found."]
             ELSE [found |-> TRUE,
                   source_type_key |-> rows[at].source_type_key,
                   has_filter |-> rows[at].has_filter,
                   has_converter |-> rows[at].has_converter]

\* dbLookRequestImpl, as far as finding the row goes: {error: "Entry not found"}
\* or a view of the row's response
DbLookRequest(rows, rowId) ==
    IF FindIndex([i \in 1..Len(rows) |-> rows[i].id = rowId]) = 0
    THEN [found |-> FALSE, error |-> "Entry not found"]
    ELSE [found |-> TRUE, error |-> ""]

\* the ids a tool call names: those handed out so far, and one never handed out
RowIds == 1..(idsIssued + 1)

\* handleSyncToDb / syncHarToDb(entries) with one or two records of the dataset
SyncHarToDbStep ==
    \E n \in 1..2 : \E picked \in [1..n -> 1..Len(harEntries)] :
        LET entries == [k \in 1..n |-> harEntries[picked[k]]]
        IN  /\ \A k \in 1..(n - 1) : picked[k] < picked[k + 1]
            /\ idsIssued + n <= MaxRows
            /\ scrapingEntries' = SyncHarToDb(scrapingEntries, entries, idsIssued)
            /\ idsIssued' = idsIssued + n
            /\ lastOp' = [op |-> "syncHarToDb", synced |-> n, before |-> scrapingEntries]
            /\ UNCHANGED <<knowledgeData, harEntries, agentVars, appVars>>

\* the tools db_update_row and update_scraping_entry
DbUpdateRowStep ==
    \E rowId \in RowIds, updates \in {RowUpdates(Filtered, "keys", "none", FALSE),
                                     RowUpdates(FinalResponse, "none", "none", FALSE)} :
        /\ scrapingEntries' = UpdateScrapingEntry(scrapingEntries, rowId, updates)
        /\ lastOp' = [op |-> "db_update_row", row_id |-> rowId]
        /\ UNCHANGED <<knowledgeData, harEntries, idsIssued, agentVars, appVars>>

\* the tool db_delete_row
DbDeleteRowStep ==
    \E rowId \in RowIds :
        /\ scrapingEntries' = UpdateScrapingEntry(scrapingEntries, rowId, SoftDelete)
        /\ lastOp' = [op |-> "db_delete_row", row_id |-> rowId, before |-> scrapingEntries]
        /\ UNCHANGED <<knowledgeData, harEntries, idsIssued, agentVars, appVars>>

\* the tool delete_scraping_entry and the delete button of the Knowledge DB panel
DeleteScrapingEntryStep ==
    \E rowId \in RowIds :
        /\ scrapingEntries' = DeleteScrapingEntry(scrapingEntries, rowId)
        /\ lastOp' = [op |-> "deleteScrapingEntry", row_id |-> rowId]
        /\ UNCHANGED <<knowledgeData, harEntries, idsIssued, agentVars, appVars>>

\* the tool db_look_tables
DbLookTablesStep ==
    /\ lastOp' = [op |-> "db_look_tables", returned |-> DbListTables(scrapingEntries, <<>>)]
    /\ UNCHANGED <<knowledgeData, storeVars, agentVars>>

\* the tool db_look_tables, by the implementation that stands second in the file
DbLookTablesFinalOnlyStep ==
    /\ lastOp' = [op |-> "db_look_tables_final_only",
                  returned |-> DbListTablesFinalOnly(scrapingEntries, <<>>)]
    /\ UNCHANGED <<knowledgeData, storeVars, agentVars>>

\* the tool find_similar_parser
FindSimilarParserStep ==
    \E url \in Urls, method \in {"GET", "POST"} :
        /\ lastOp' = [op |-> "find_similar_parser", url |-> url, method |-> method,
                      returned |-> FindSimilarParser(scrapingEntries, url, method)]
        /\ UNCHANGED <<knowledgeData, storeVars, agentVars>>

\* the tool db_look_request
DbLookRequestStep ==
    \E rowId \in RowIds :
        /\ lastOp' = [op |-> "db_look_request", row_id |-> rowId,
                      returned |-> DbLookRequest(scrapingEntries, rowId)]
        /\ UNCHANGED <<knowledgeData, storeVars, agentVars>>

\* a project with a dataset and no rows
InitDb ==
    /\ knowledgeData = [nodes |-> <<>>, links |-> <<>>]
    /\ lastOp = NoOp
    /\ AgentIdle
    /\ OneProjectOpen
    /\ harEntries = [i \in 1..MaxEntries |-> HarRecord(i, FALSE)]
    /\ scrapingEntries = <<>>
    /\ idsIssued = 0

NextDb ==
    \/ SyncHarToDbStep
    \/ DbUpdateRowStep
    \/ DbDeleteRowStep
    \/ DeleteScrapingEntryStep
    \/ DbLookTablesStep
    \/ DbLookTablesFinalOnlyStep
    \/ DbLookRequestStep
    \/ FindSimilarParserStep

SpecDb == InitDb /\ [][NextDb]_vars

----------------------------------------------------------------------------
(* The pipeline of a row: the tools' updates and the Pipeline Editor of the
   Knowledge DB panel *)

\* updateScrapingEntry(rowId, updates) called by `op`
UpdateRow(op, rowId, updates) ==
    /\ scrapingEntries' = UpdateScrapingEntry(scrapingEntries, rowId, updates)
    /\ lastOp' = [op |-> op, row_id |-> rowId, updates |-> updates]
    /\ UNCHANGED <<knowledgeData, harEntries, idsIssued, agentVars, appVars>>

\* the ids of the rows the panel shows
ShownRowIds == {scrapingEntries[i].id : i \in 1..Len(scrapingEntries)}

\* db_update_row({row_id, step?, converter_code?, filterer_json?}) and
\* update_scraping_entry({id, filterer_json?, converter_code?, status?}): an
\* absent or empty step or code adds nothing to the updates, a filterer_json
\* object is added even when it is {}
ToolUpdateStep ==
    \E rowId \in RowIds, step \in {"", Filtered, FinalResponse},
       filtererJson \in {"none", "empty", "keys"}, converterCode \in {"none", "code"} :
        UpdateRow("db_update_row", rowId, RowUpdates(step, filtererJson, converterCode, FALSE))

\* the filter editor's onChange with text that parses
EditFilterStep ==
    \E rowId \in ShownRowIds, json \in {"empty", "keys"} :
        UpdateRow("edit_filterer_json", rowId, RowUpdates(Filtered, json, "none", FALSE))

\* the converter editor's onChange
EditConverterStep ==
    \E rowId \in ShownRowIds, val \in {"empty", "code"} :
        UpdateRow("edit_converter_code", rowId, RowUpdates("", "none", val, FALSE))

\* the Test Run button
TestRunStep ==
    \E rowId \in ShownRowIds :
        UpdateRow("test_run", rowId, RowUpdates(Converted, "none", "none", FALSE))

\* db_delete_row, seen as an update
SoftDeleteStep ==
    \E rowId \in RowIds : UpdateRow("db_delete_row", rowId, SoftDelete)

\* a project whose first two records, requests of one endpoint, were synced
InitPipeline ==
    /\ knowledgeData = [nodes |-> <<>>, links |-> <<>>]
    /\ lastOp = NoOp
    /\ AgentIdle
    /\ OneProjectOpen
    /\ harEntries = [i \in 1..MaxEntries |-> HarRecord(i, FALSE)]
    /\ scrapingEntries = SyncHarToDb(<<>>, SubSeq(harEntries, 1, 2), 0)
    /\ idsIssued = 2

NextPipeline ==
    \/ ToolUpdateStep
    \/ EditFilterStep
    \/ EditConverterStep
    \/ TestRunStep
    \/ SoftDeleteStep

SpecPipeline == InitPipeline /\ [][NextPipeline]_vars

----------------------------------------------------------------------------
(* The project store: projects, their persisted copies, the debounced save
   (store/projectStore.ts, the StorageService) *)

\* a backup document as the import looks at it: whether harEntries is there,
\* and knowledgeData: "absent" or "graph"
Backups == [harEntries : BOOLEAN, knowledgeData : {"absent", "graph"}]

\* the errors the two imports show for a document that fails their check
CreateRejected == "Failed to create project from backup: Invalid backup format: missing HAR entries or Knowledge Graph."
ImportRejected == "Failed to import backup: Invalid backup file format. Missing HAR entries or Knowledge Graph data."

\* a check that looks at harEntries alone
IsValidBackupHarOnly(backup) == backup.harEntries

\* the check of createProjectFromBackup and of the panel's handleFileChange:
\* !(!backup.harEntries || !backup.knowledgeData)
IsValidBackup(backup) == backup.harEntries /\ backup.knowledgeData # "absent"

\* storageService.saveProject(project): put
SaveProject(stored, project) == (project.id :> project) @@ stored

\* storageService.deleteProject(id): delete
DeleteStored(stored, id) == [p \in DOMAIN stored \ {id} |-> stored[p]]

\* an init() that awaits getAllMetadata / that holds what it returned
InitReading == [phase |-> "reading", ids |-> {}]
InitRead(ids) == [phase |-> "read", ids |-> ids]

\* importProjectFromFile / createProjectFromBackup(backup): the check throws,
\* or backup.knowledgeData.nodes throws, and the catch sets the error; else
\* the project is saved, the list reloaded and the project opened
CreateProjectFromBackupStep ==
    \E backup \in Backups :
        /\ lastOp' = [op |-> "createProjectFromBackup", backup |-> backup]
        /\ IF ~IsValidBackup(backup)
           THEN /\ storeError' = CreateRejected
                /\ UNCHANGED <<projects, storage, activeProject, projectsIssued>>
           ELSE IF backup.knowledgeData # "graph"
           THEN /\ storeError' = "Failed to create project from backup: Cannot read properties of undefined (reading 'length')"
                /\ UNCHANGED <<projects, storage, activeProject, projectsIssued>>
           ELSE /\ projectsIssued < MaxProjects
                /\ projectsIssued' = projectsIssued + 1
                /\ storage' = SaveProject(storage, Project(projectsIssued', 0))
                /\ projects' = DOMAIN storage'
                /\ activeProject' = Project(projectsIssued', 0)
                /\ UNCHANGED storeError
        /\ UNCHANGED <<saveTimeout, pendingInits, pendingDeletes, deleteCalled, latest>>
        /\ UNCHANGED <<knowledgeData, harEntries, scrapingEntries, idsIssued, agentVars, chatVars>>

\* the settings panel's handleFileChange with a file that parses: the check
\* throws and the catch sets the import error; else importProjectData(parsed):
\* the active project takes the backup's content (knowledgeData || an empty
\* graph) and is saved at once
ImportProjectDataStep ==
    \E backup \in Backups :
        /\ activeProject # NoProject
        /\ lastOp' = [op |-> "importProjectData", backup |-> backup]
        /\ IF ~IsValidBackup(backup)
           THEN /\ storeError' = ImportRejected
                /\ UNCHANGED <<storage, activeProject, latest>>
           ELSE /\ activeProject.edits < MaxEdits
                /\ activeProject' = Project(activeProject.id, activeProject.edits + 1)
                /\ latest' = (activeProject.id :> activeProject') @@ latest
                /\ storage' = SaveProject(storage, activeProject')
                /\ storeError' = ""
        /\ UNCHANGED <<projects, projectsIssued, saveTimeout, pendingInits, pendingDeletes,
                       deleteCalled>>
        /\ UNCHANGED <<knowledgeData, harEntries, scrapingEntries, idsIssued, agentVars, chatVars>>

\* setKnowledgeData, setHarEntries, setChatMessages, ...: a mutation of the
\* active project, and debouncedSave(updatedProject), which clears the timer
\* and sets it anew
MutateActiveProjectStep ==
    /\ activeProject # NoProject
    /\ activeProject.edits < MaxEdits
    /\ activeProject' = Project(activeProject.id, activeProject.edits + 1)
    /\ saveTimeout' = <<activeProject'>>
    /\ latest' = (activeProject.id :> activeProject') @@ latest
    /\ lastOp' = NoOp
    /\ UNCHANGED <<projects, storage, pendingInits, pendingDeletes, deleteCalled,
                   storeError, projectsIssued>>
    /\ UNCHANGED <<knowledgeData, harEntries, scrapingEntries, idsIssued, agentVars, chatVars>>

\* the timer fires: storageService.saveProject(project) of the copy it holds
SaveTimeoutFiresStep ==
    /\ saveTimeout # <<>>
    /\ storage' = SaveProject(storage, saveTimeout[1])
    /\ saveTimeout' = <<>>
    /\ lastOp' = NoOp
    /\ UNCHANGED <<projects, activeProject, pendingInits, pendingDeletes, deleteCalled,
                   latest, storeError, projectsIssued>>
    /\ UNCHANGED <<knowledgeData, harEntries, scrapingEntries, idsIssued, agentVars, chatVars>>

\* openProject(id) of a project of the list: the persisted copy becomes the
\* active project, or the error is "Project not found"
OpenProjectStep ==
    \E id \in projects :
        /\ activeProject = NoProject
        /\ IF id \in DOMAIN storage
           THEN /\ activeProject' = storage[id]
                /\ storeError' = ""
           ELSE /\ storeError' = "Project not found"
                /\ UNCHANGED activeProject
        /\ lastOp' = NoOp
        /\ UNCHANGED <<projects, storage, saveTimeout, pendingInits, pendingDeletes,
                       deleteCalled, latest, projectsIssued>>
        /\ UNCHANGED <<knowledgeData, harEntries, scrapingEntries, idsIssued, agentVars, chatVars>>

\* closeProject(): no active project, and init() is started
CloseProjectStep ==
    /\ activeProject # NoProject
    /\ Cardinality(pendingInits) < MaxPending
    /\ activeProject' = NoProject
    /\ pendingInits' = pendingInits \cup {InitReading}
    /\ lastOp' = NoOp
    /\ UNCHANGED <<projects, storage, saveTimeout, pendingDeletes, deleteCalled, latest,
                   storeError, projectsIssued>>
    /\ UNCHANGED <<knowledgeData, harEntries, scrapingEntries, idsIssued, agentVars, chatVars>>

\* init(): storageService.getAllMetadata() answers
InitReadsStep ==
    /\ InitReading \in pendingInits
    /\ pendingInits' = (pendingInits \ {InitReading}) \cup {InitRead(DOMAIN storage)}
    /\ lastOp' = NoOp
    /\ UNCHANGED <<projects, storage, activeProject, saveTimeout, pendingDeletes,
                   deleteCalled, latest, storeError, projectsIssued>>
    /\ UNCHANGED <<knowledgeData, harEntries, scrapingEntries, idsIssued, agentVars, chatVars>>

\* init(): set({projects, isLoading: false}) with what was read
InitSetsStep ==
    \E read \in pendingInits :
        /\ read.phase = "read"
        /\ projects' = read.ids
        /\ pendingInits' = pendingInits \ {read}
        /\ lastOp' = NoOp
        /\ UNCHANGED <<storage, activeProject, saveTimeout, pendingDeletes, deleteCalled,
                       latest, storeError, projectsIssued>>
        /\ UNCHANGED <<knowledgeData, harEntries, scrapingEntries, idsIssued, agentVars, chatVars>>

\* deleteProject(id), up to its await: closeProject() if the project is the
\* active one, and storageService.deleteProject(id) is started
DeleteProjectStep ==
    \E id \in projects \ deleteCalled :
        /\ activeProject.id = id => Cardinality(pendingInits) < MaxPending
        /\ IF activeProject.id = id
           THEN /\ activeProject' = NoProject
                /\ pendingInits' = pendingInits \cup {InitReading}
           ELSE UNCHANGED <<activeProject, pendingInits>>
        /\ pendingDeletes' = pendingDeletes \cup {[id |-> id, phase |-> "storage"]}
        /\ deleteCalled' = deleteCalled \cup {id}
        /\ lastOp' = NoOp
        /\ UNCHANGED <<projects, storage, saveTimeout, latest, storeError, projectsIssued>>
        /\ UNCHANGED <<knowledgeData, harEntries, scrapingEntries, idsIssued, agentVars, chatVars>>

\* storageService.deleteProject(id): the transaction is done
DeleteFromStorageStep ==
    \E d \in pendingDeletes :
        /\ d.phase = "storage"
        /\ storage' = DeleteStored(storage, d.id)
        /\ pendingDeletes' = (pendingDeletes \ {d}) \cup {[id |-> d.id, phase |-> "list"]}
        /\ lastOp' = NoOp
        /\ UNCHANGED <<projects, activeProject, saveTimeout, pendingInits, deleteCalled,
                       latest, storeError, projectsIssued>>
        /\ UNCHANGED <<knowledgeData, harEntries, scrapingEntries, idsIssued, agentVars, chatVars>>

\* deleteProject(id), after its await: the project is filtered out of the list
DeleteFromListStep ==
    \E d \in pendingDeletes :
        /\ d.phase = "list"
        /\ projects' = projects \ {d.id}
        /\ pendingDeletes' = pendingDeletes \ {d}
        /\ lastOp' = NoOp
        /\ UNCHANGED <<storage, activeProject, saveTimeout, pendingInits, deleteCalled,
                       latest, storeError, projectsIssued>>
        /\ UNCHANGED <<knowledgeData, harEntries, scrapingEntries, idsIssued, agentVars, chatVars>>

\* the application after init(): two projects saved and listed, none open
InitProjects ==
    /\ knowledgeData = [nodes |-> <<>>, links |-> <<>>]
    /\ lastOp = NoOp
    /\ AgentIdle
    /\ harEntries = <<>>
    /\ scrapingEntries = <<>>
    /\ idsIssued = 0
    /\ projects = {1, 2}
    /\ storage = (1 :> Project(1, 0)) @@ (2 :> Project(2, 0))
    /\ activeProject = NoProject
    /\ saveTimeout = <<>>
    /\ pendingInits = {}
    /\ pendingDeletes = {}
    /\ deleteCalled = {}
    /\ latest = <<>>
    /\ storeError = ""
    /\ projectsIssued = 2
    /\ loading = FALSE
    /\ messages = <<>>
    /\ agentRuns = 0

\* opening, mutating and closing projects, and the saves that follow
NextSave ==
    \/ MutateActiveProjectStep
    \/ SaveTimeoutFiresStep
    \/ OpenProjectStep
    \/ CloseProjectStep
    \/ InitReadsStep
    \/ InitSetsStep

SpecSave == InitProjects /\ [][NextSave]_vars

\* the same, and deleting projects
NextDelete ==
    \/ MutateActiveProjectStep
    \/ SaveTimeoutFiresStep
    \/ OpenProjectStep
    \/ CloseProjectStep
    \/ InitReadsStep
    \/ InitSetsStep
    \/ DeleteProjectStep
    \/ DeleteFromStorageStep
    \/ DeleteFromListStep

SpecDelete == InitProjects /\ [][NextDelete]_vars

\* opening and closing projects, and importing backups
NextImport ==
    \/ CreateProjectFromBackupStep
    \/ ImportProjectDataStep
    \/ OpenProjectStep
    \/ CloseProjectStep
    \/ InitReadsStep
    \/ InitSetsStep

SpecImport == InitProjects /\ [][NextImport]_vars

----------------------------------------------------------------------------
(* The chat panel: handleSend (components/ChatInterface.tsx) *)

\* a message of the panel
ChatMessage(role, text) == [role |-> role, text |-> text]

\* the message the panel starts with
Greeting == ChatMessage("model", "Hello! I am ready to analyze your HAR file.")

\* what the input field holds when handleSend is called
Inputs == {"", "   ", "list the requests", "extract the users"}

\* input.trim() is empty
IsBlank(input) == input \in {"", "   "}

\* a guard that looks at the input alone
SendIgnoredBlankOnly(input, isLoading) == IsBlank(input)

\* handleSend's `if (!input.trim() || loading) return;`
SendIgnored(input, isLoading) == IsBlank(input) \/ isLoading

\* the user messages of the panel
UserMessages == {i \in 1..Len(messages) : messages[i].role = "user"}

\* handleSend(), up to its await: nothing when the send is ignored; else the
\* user's message is appended, loading is set and runHarAgent is called. The
\* handler reads the loading of the last render, and the panel is rendered
\* anew after every event and every end of a run
HandleSendStep ==
    \E input \in Inputs :
        /\ lastOp' = [op |-> "handleSend", input |-> input,
                      ignored |-> SendIgnored(input, loading), before |-> messages]
        /\ IF SendIgnored(input, loading)
           THEN UNCHANGED chatVars
           ELSE /\ Cardinality(UserMessages) < MaxSends
                /\ messages' = Append(messages, ChatMessage("user", input))
                /\ loading' = TRUE
                /\ agentRuns' = agentRuns + 1
        /\ UNCHANGED <<knowledgeData, harEntries, scrapingEntries, idsIssued, agentVars,
                       projectVars>>

\* runHarAgent returns: the try appends the response, the finally clears loading
AgentReturnsStep ==
    /\ agentRuns > 0
    /\ agentRuns' = agentRuns - 1
    /\ messages' = Append(messages, ChatMessage("model", "response"))
    /\ loading' = FALSE
    /\ lastOp' = [op |-> "runHarAgent returned"]
    /\ UNCHANGED <<knowledgeData, harEntries, scrapingEntries, idsIssued, agentVars,
                   projectVars>>

\* runHarAgent throws: the catch appends the apology, the finally clears loading
AgentThrowsStep ==
    /\ agentRuns > 0
    /\ agentRuns' = agentRuns - 1
    /\ messages' = Append(messages, ChatMessage("model",
                       "Sorry, I encountered an error communicating with Gemini."))
    /\ loading' = FALSE
    /\ lastOp' = [op |-> "runHarAgent threw"]
    /\ UNCHANGED <<knowledgeData, harEntries, scrapingEntries, idsIssued, agentVars,
                   projectVars>>

\* the panel as it is mounted: the greeting, not loading
InitChat ==
    /\ knowledgeData = [nodes |-> <<>>, links |-> <<>>]
    /\ lastOp = NoOp
    /\ AgentIdle
    /\ harEntries = <<>>
    /\ scrapingEntries = <<>>
    /\ idsIssued = 0
    /\ projects = {1}
    /\ storage = (1 :> Project(1, 0))
    /\ activeProject = Project(1, 0)
    /\ saveTimeout = <<>>
    /\ pendingInits = {}
    /\ pendingDeletes = {}
    /\ deleteCalled = {}
    /\ latest = <<>>
    /\ storeError = ""
    /\ projectsIssued = 1
    /\ loading = FALSE
    /\ messages = <<Greeting>>
    /\ agentRuns = 0

NextChat ==
    \/ HandleSendStep
    \/ AgentReturnsStep
    \/ AgentThrowsStep

SpecChat == InitChat /\ [][NextChat]_vars

----------------------------------------------------------------------------
(* Properties of runHarAgent *)

Terminated == pc \in {"returned", "threw"}

\* C1: whatever the model answers, one run of runHarAgent sends at most 5
\* tool-result messages to the model, and the turn counter never exceeds 5.
C1_TurnCeiling == turns <= MaxTurns /\ sentCount <= MaxTurns

\* the model asked for tools in every response and the loop stopped at the ceiling
C1_Witness ==
    /\ pc = "returned"
    /\ sentCount = MaxTurns
    /\ turns = MaxTurns
    /\ Len(response) > 0

\* C2: when every send and every tool call returns, runHarAgent terminates; the
\* loop is left as soon as a response carries no call or the counter is at 5,
\* and then the function returns normally, also in the ceiling case.
C2_Terminates ==
    /\ <>Terminated
    /\ [][(pc = "check" /\ (Len(response) = 0 \/ turns = MaxTurns)) => pc' = "returned"]_vars

\* the ceiling case: the last response still asks for tools, and the run returned
C2_Witness == pc = "returned" /\ turns = MaxTurns /\ response # <<>>

\* the invocations and returns of implementations in this iteration, in order
CallLog ==
    LET IsCall(e) == e.kind \in {"invoke", "return"}
    IN  SelectSeq(events, IsCall)

\* C3: in one iteration the implementations run one at a time, in the order of
\* the model's calls (none is started before the previous one has returned), and
\* the one follow-up message holds exactly one response per call, in that order.
C3_SequentialInOrder ==
    /\ \A i \in 1..Len(CallLog) :
          /\ CallLog[i].kind = (IF i % 2 = 1 THEN "invoke" ELSE "return")
          /\ (i % 2 = 0 => CallLog[i].k = CallLog[i - 1].k)
          /\ (i > 1 /\ i % 2 = 1 => CallLog[i].k > CallLog[i - 1].k)
    /\ (pc = "await_model" /\ sentCount > 0 =>
          /\ Len(lastSent) = Len(response)
          /\ \A k \in 1..Len(response) :
                /\ lastSent[k].name = response[k]
                /\ lastSent[k].id = CallFieldId(turns, k))

\* a follow-up for two calls to two different implementations is in flight
C3_Witness ==
    /\ pc = "await_model"
    /\ Len(lastSent) = 2
    /\ Len(CallLog) = 4
    /\ lastSent[1].name # lastSent[2].name

\* the positions of the events of one kind for call k
EventsOf(kind, k) == { i \in 1..Len(events) : events[i].kind = kind /\ events[i].k = k }

\* call k of this iteration is over: the loop went on to the next call or to the
\* send, or the run ended while at it
CallOver(k) ==
    \/ k < callIdx /\ pc \in {"dispatch", "running", "finish", "send", "await_model", "threw"}
    \/ k = callIdx /\ pc = "threw"

C6_UnknownToolIsError ==
    /\ \A k \in 1..Len(functionResponses) :
          functionResponses[k].name \notin (toolImplementations \cup KnowledgeTools)
              => Truthy(functionResponses[k].result.error)
    /\ (pc = "threw" => CurrentName \in toolImplementations \cup KnowledgeTools)

\* C7: whenever run_extraction_code returns success: true, its output array is
\* handed to the data-extracted callback exactly once, before the results of
\* the turn are sent to the model.
C7_ExtractionRouted ==
    hasOnDataExtracted =>
        \A i \in 1..Len(events) :
            (/\ events[i].kind = "return"
             /\ response[events[i].k] = "run_extraction_code"
             /\ events[i].result.success = "true")
            => /\ Cardinality(EventsOf("extracted", events[i].k)) = 1
               /\ \A j \in EventsOf("extracted", events[i].k) :
                     j > i /\ events[j].result.data = events[i].result.data

----------------------------------------------------------------------------
(* Properties of the knowledge graph *)

\* the nodes of a graph that have the id, in order
NodesWithId(kd, id) ==
    LET HasId(n) == n.id = id
    IN  SelectSeq(kd.nodes, HasId)

\* C8: merging a batch that holds an entity whose id the graph already has
\* leaves that node's type, label and data as they were and leaves exactly one
\* node of that id; merging the same batch again does not change the node list.
C8_MergeKeepsExisting ==
    \A batch \in EntityBatches :
        LET after == HandleAddEntity(knowledgeData, batch)
        IN  /\ \A i \in 1..Len(batch) :
                  batch[i].id \in NodeIds(knowledgeData) =>
                      /\ NodesWithId(after, batch[i].id)
                             = NodesWithId(knowledgeData, batch[i].id)
                      /\ Len(NodesWithId(after, batch[i].id)) = 1
            /\ HandleAddEntity(after, batch).nodes = after.nodes

\* a batch with an id the graph already held has been merged, and added no node
C8_Witness ==
    /\ lastOp.op = "handleAddEntity"
    /\ lastOp.hits > 0
    /\ lastOp.hits = lastOp.len
    /\ Len(knowledgeData.nodes) = lastOp.nodesBefore

\* C9: from the empty graph, after any sequence of merges and kg_create_node
\* calls, no two nodes of the node list share an id.
C9_UniqueNodeIds ==
    \A i, j \in 1..Len(knowledgeData.nodes) :
        knowledgeData.nodes[i].id = knowledgeData.nodes[j].id => i = j

ProjectP1 == Entity("p1", "Project", "p1", <<>>)
TaskT1 == Entity("t1", "Task", "t1", << <<KeyProjectId, "p1">> >>)

\* C10: merging the single entity {id: "t1", type: "Task", data: {projectId:
\* "p1"}} into a graph whose only node is {id: "p1", type: "Project"} appends
\* exactly one edge, {source: "t1", target: "p1", label: "projectId"}.
C10_AutoLinkExample ==
    knowledgeData.nodes = <<ProjectP1>> =>
        HandleAddEntity(knowledgeData, <<TaskT1>>) =
            [nodes |-> <<ProjectP1, TaskT1>>,
             links |-> Append(knowledgeData.links, Link("t1", "p1", KeyProjectId))]

\* the task has been merged into the graph that held the project alone
C10_Witness ==
    /\ lastOp.op = "handleAddEntity"
    /\ lastOp.len = 1
    /\ lastOp.nodesBefore = 1
    /\ lastOp.linksBefore = 0
    /\ knowledgeData.nodes = <<ProjectP1, TaskT1>>
    /\ knowledgeData.links = <<Link("t1", "p1", KeyProjectId)>>

----------------------------------------------------------------------------
(* Properties of the auto-linking *)

\* the entities a merge is probed with: the pool and the adapted raw items
ProbeEntities ==
    EntityPool \cup { AdaptExtracted(<<raw>>, now)[1] : raw \in RawItems, now \in NowValues }

\* the keys of the probes that equal 'id' or end with 'Id'
IdLikeKeys == {KeyId, KeyProjectId}

\* the links a merge of the single entity e appends to the graph kd
AddedLinks(kd, e) ==
    LET after == HandleAddEntity(kd, <<e>>)
    IN  SubSeq(after.links, Len(kd.links) + 1, Len(after.links))

\* the nodes of kd other than the node of e
OtherNodes(kd, e) == { n \in { kd.nodes[i] : i \in 1..Len(kd.nodes) } : n.id # e.id }

\* entry j of e has a string value under an id-like key
LinkingEntry(e, j) == e.data[j][1] \in IdLikeKeys /\ e.data[j][2] \in StringValues

\* another node has the value of entry j as its id / as its data.id
ForwardMatch(kd, e, j) == \E n \in OtherNodes(kd, e) : n.id = e.data[j][2]
ReverseMatch(kd, e, j) == \E n \in OtherNodes(kd, e) : Get(n.data, KeyId) = e.data[j][2]

\* C11: for each entity of a merge and each key of its data, edges are appended
\* only when the value is a string and the key is 'id' or ends with 'Id'; such a
\* key appends at most one forward edge (entity -> the node whose id is the
\* value) and at most one reverse edge (the node whose data.id is the value ->
\* entity), each labelled with the key, and each check fires whether or not the
\* other does.
C11_LinkRule ==
    \A e \in ProbeEntities :
        LET added == AddedLinks(knowledgeData, e)
            fwd == { j \in 1..Len(e.data) :
                        LinkingEntry(e, j) /\ ForwardMatch(knowledgeData, e, j) }
            rev == { j \in 1..Len(e.data) :
                        LinkingEntry(e, j) /\ ReverseMatch(knowledgeData, e, j) }
        IN  /\ Len(added) = Cardinality(fwd) + Cardinality(rev)
            /\ \A j \in fwd :
                  Cardinality({ i \in 1..Len(added) :
                                  added[i] = Link(e.id, e.data[j][2], e.data[j][1]) }) = 1
            /\ \A j \in rev :
                  Cardinality({ i \in 1..Len(added) :
                                  /\ added[i].target = e.id
                                  /\ added[i].label = e.data[j][1]
                                  /\ \E n \in OtherNodes(knowledgeData, e) :
                                        /\ n.id = added[i].source
                                        /\ Get(n.data, KeyId) = e.data[j][2] }) = 1

\* one key has appended both edges: the task's projectId found the project by
\* its id and by its data.id
C11_Witness ==
    /\ lastOp.op = "handleAddEntity"
    /\ Len(knowledgeData.links) >= lastOp.linksBefore + 2
    /\ \E i \in 1..(Len(knowledgeData.links) - 1) :
          /\ i > lastOp.linksBefore
          /\ knowledgeData.links[i] = Link("t1", "p1", KeyProjectId)
          /\ knowledgeData.links[i + 1] = Link("p1", "t1", KeyProjectId)

\* C12: no edge the merge appends is a self-reference: source differs from
\* target, for any batch and any prior graph with unique node ids.
C12_NoSelfReference ==
    /\ \A i \in 1..Len(knowledgeData.links) :
          knowledgeData.links[i].source # knowledgeData.links[i].target
    /\ \A e \in ProbeEntities :
          \A i \in 1..Len(AddedLinks(knowledgeData, e)) :
              AddedLinks(knowledgeData, e)[i].source # AddedLinks(knowledgeData, e)[i].target

\* an entity that holds its own id in data.id has been merged and has got an edge
C12_Witness ==
    /\ lastOp.op = "handleAddEntity"
    /\ Len(knowledgeData.links) > lastOp.linksBefore
    /\ \E i \in 1..Len(knowledgeData.nodes) :
          /\ Get(knowledgeData.nodes[i].data, KeyId) = knowledgeData.nodes[i].id
          /\ knowledgeData.links[Len(knowledgeData.links)].target = knowledgeData.nodes[i].id

----------------------------------------------------------------------------
(* Properties of the extraction tool *)

\* the last operation was a call of run_extraction_code
ExtractionCalled == lastOp.op = "run_extraction_code"

\* the indexes of the records handed to the script of the last call
HandedIndexes == IndexesOf(lastOp.handed)

\* C13: runExtractionCodeImpl returns {success: true, data} with data the value
\* the script returned when that is an array, and else the contents of the
\* `results` accumulator (empty when nothing was pushed); count is the length
\* of data.
C13_ReturnedOrAccumulated ==
    (ExtractionCalled /\ lastOp.script.end \notin {"throw_error", "throw_string"}) =>
        LET r == lastOp.returned
            pushed == CASE lastOp.script.push = "none" -> <<>>
                        [] lastOp.script.push = "item" -> <<"item">>
                        [] OTHER -> HandedIndexes
        IN  /\ r.success = TRUE
            /\ r.data.kind = "array"
            /\ r.data.items =
                   CASE lastOp.script.end = "return_entries" -> HandedIndexes
                     [] lastOp.script.end = "return_item" -> <<"item">>
                     [] OTHER -> pushed
            /\ r.count = Len(r.data.items)

\* a script that pushed onto `results` and then returned a number has run: the
\* accumulator came back
C13_Witness ==
    /\ ExtractionCalled
    /\ lastOp.script.end = "return_number"
    /\ lastOp.script.push = "entries"
    /\ Len(lastOp.handed) >= 2
    /\ lastOp.returned.success = TRUE
    /\ lastOp.returned.data.items = HandedIndexes

\* C14: when the script raises (throw new Error("boom")), runExtractionCodeImpl
\* returns {success: false, error: <the message>, logs}, the exception does not
\* reach the caller, and the graph and the dataset are as they were.
C14_FailureLeavesAllUnchanged ==
    (ExtractionCalled /\ lastOp.script.end = "throw_error") =>
        /\ lastOp.returned = [success |-> FALSE, error |-> "boom",
                              logs |-> IF lastOp.script.log THEN <<"logged">> ELSE <<>>]
        /\ knowledgeData = [nodes |-> <<>>, links |-> <<>>]
        /\ harEntries = lastOp.before

\* C15: the records handed to the script are, in their original order, exactly
\* the selected records when at least one is selected, and all records when
\* none is.
C15_ActiveSubset ==
    ExtractionCalled =>
        LET before == lastOp.before
            sel == { i \in 1..Len(before) : before[i].selected }
            handed == lastOp.handed
        IN  IF sel = {}
            THEN handed = before
            ELSE /\ Len(handed) = Cardinality(sel)
                 /\ \A k \in 1..Len(handed) :
                       /\ handed[k].index \in sel
                       /\ handed[k] = before[handed[k].index]
                 /\ \A k \in 1..(Len(handed) - 1) : handed[k].index < handed[k + 1].index

\* the script ran on a dataset of three records of which the first and the
\* third are selected, and returned what it was handed
C15_Witness ==
    /\ ExtractionCalled
    /\ Len(lastOp.before) = 3
    /\ lastOp.before[1].selected /\ ~lastOp.before[2].selected /\ lastOp.before[3].selected
    /\ lastOp.script.end = "return_entries"
    /\ lastOp.returned.data.items = <<1, 3>>

----------------------------------------------------------------------------
(* Properties of the structural summarizer *)

\* the last operation was a call of summarizeJsonStructure
Summarized == lastOp.op = "summarizeJsonStructure"

\* `out` has the shape the summary of `in` is to have: the same keys in every
\* object, an empty array for an empty array, and one element, of the shape of
\* the summary of the first element, for any other array
RECURSIVE ShapeKept(_, _)
ShapeKept(in, out) ==
    CASE in.t = "object" ->
             /\ out.t = "object"
             /\ Len(out.items) = Len(in.items)
             /\ \A i \in 1..Len(in.items) :
                   /\ out.items[i][1] = in.items[i][1]
                   /\ ShapeKept(in.items[i][2], out.items[i][2])
      [] in.t = "array" /\ in.items = <<>> -> out.t = "array" /\ out.items = <<>>
      [] in.t = "array" /\ in.items # <<>> ->
             /\ out.t = "array"
             /\ Len(out.items) = 1
             /\ ShapeKept(in.items[1], out.items[1])
      [] OTHER -> out.t = in.t

\* the length of the longest string in a value, and the depth of its nesting
RECURSIVE LongestString(_)
LongestString(v) ==
    LET Longest(S) == IF S = {} THEN 0 ELSE CHOOSE n \in S : \A m \in S : m <= n
    IN  CASE v.t = "string" -> v.len
          [] v.t = "array" -> Longest({ LongestString(v.items[i]) : i \in 1..Len(v.items) })
          [] v.t = "object" -> Longest({ LongestString(v.items[i][2]) : i \in 1..Len(v.items) })
          [] OTHER -> 0

RECURSIVE NestingDepth(_)
NestingDepth(v) ==
    LET Deepest(S) == IF S = {} THEN 0 ELSE CHOOSE n \in S : \A m \in S : m <= n
    IN  CASE v.t = "array" -> 1 + Deepest({ NestingDepth(v.items[i]) : i \in 1..Len(v.items) })
          [] v.t = "object" -> 1 + Deepest({ NestingDepth(v.items[i][2]) : i \in 1..Len(v.items) })
          [] OTHER -> 0

C18_CappedAndBounded ==
    Summarized =>
        /\ LongestString(lastOp.output) <= StringThreshold
        /\ NestingDepth(lastOp.output) <= DepthCeiling + 1


----------------------------------------------------------------------------
(* Properties of the Knowledge DB *)

\* the rows without the i-th
WithoutRow(rows, i) == SubSeq(rows, 1, i - 1) \o SubSeq(rows, i + 1, Len(rows))

\* the rows whose is_deleted is set
DeletedRows == {i \in 1..Len(scrapingEntries) : scrapingEntries[i].is_deleted}

\* C19: syncing one record appends exactly one row, with status unprocessed,
\* and leaves the earlier rows as they were; a soft-deleted row is not counted
\* by db_look_tables (the listing is the one of the rows without it), and
\* db_look_request by its id still finds it.
C19_SyncAppendsSoftDeleteHides ==
    /\ (lastOp.op = "syncHarToDb" /\ lastOp.synced = 1) =>
            /\ Len(scrapingEntries) = Len(lastOp.before) + 1
            /\ SubSeq(scrapingEntries, 1, Len(lastOp.before)) = lastOp.before
            /\ scrapingEntries[Len(scrapingEntries)].processing_status = Unprocessed
    /\ \A i \in DeletedRows :
            /\ DbListTables(scrapingEntries, <<>>)
                   = DbListTables(WithoutRow(scrapingEntries, i), <<>>)
            /\ DbLookRequest(scrapingEntries, scrapingEntries[i].id).found

\* db_delete_row has just soft-deleted a synced row whose group has another,
\* live row
C19_Witness ==
    /\ lastOp.op = "db_delete_row"
    /\ \E i \in DeletedRows :
            /\ scrapingEntries[i].id = lastOp.row_id
            /\ ~lastOp.before[i].is_deleted
            /\ \E j \in 1..Len(scrapingEntries) :
                    /\ ~scrapingEntries[j].is_deleted
                    /\ scrapingEntries[j].source_type_key = scrapingEntries[i].source_type_key

\* C20: whatever syncs, updates and deletes have happened, every row ever
\* synced is still in the list.
C20_NeverHardDeleted ==
    \A id \in 1..idsIssued : DbLookRequest(scrapingEntries, id).found


----------------------------------------------------------------------------
(* Properties of the pipeline of a row *)

\* the place of a status in the chain unprocessed -> filtered -> converted ->
\* final_response
StatusRank(status) ==
    CASE status = Unprocessed -> 0
      [] status = Filtered -> 1
      [] status = Converted -> 2
      [] status = FinalResponse -> 3

\* C21: no operation on a row moves its processing_status to an earlier state
\* of the chain, and a soft delete changes nothing of the row but is_deleted.
C21_StatusOnlyAdvances ==
    [][\A i \in 1..Len(scrapingEntries) :
          /\ Len(scrapingEntries') = Len(scrapingEntries)
          /\ StatusRank(scrapingEntries'[i].processing_status)
                 >= StatusRank(scrapingEntries[i].processing_status)
          /\ lastOp'.op = "db_delete_row" =>
                 scrapingEntries'[i] = [scrapingEntries[i] EXCEPT
                     !.is_deleted = IF scrapingEntries[i].id = lastOp'.row_id
                                    THEN TRUE ELSE @]]_vars

\* the soft-delete half of C21 on its own
SoftDeleteChangesFlagOnly ==
    [][\A i \in 1..Len(scrapingEntries) :
          lastOp'.op = "db_delete_row" =>
              scrapingEntries'[i] = [scrapingEntries[i] EXCEPT
                  !.is_deleted = IF scrapingEntries[i].id = lastOp'.row_id
                                 THEN TRUE ELSE @]]_vars

\* C25: an update that carries a filterer_json with keys and no status leaves
\* an unprocessed row filtered, and one that carries converter code and no
\* status leaves a filtered row converted.
C25_StatusFollowsContent ==
    [][\A i \in 1..Len(scrapingEntries) :
          (/\ lastOp'.op \in {"db_update_row", "edit_filterer_json", "edit_converter_code"}
           /\ lastOp'.row_id = scrapingEntries[i].id
           /\ lastOp'.updates.step = "") =>
              /\ (/\ lastOp'.updates.filterer_json = "keys"
                  /\ scrapingEntries[i].processing_status = Unprocessed)
                 => scrapingEntries'[i].processing_status = Filtered
              /\ (/\ lastOp'.updates.converter_code = "code"
                  /\ lastOp'.updates.filterer_json = "none"
                  /\ scrapingEntries[i].processing_status = Filtered)
                 => scrapingEntries'[i].processing_status = Converted]_vars


----------------------------------------------------------------------------
(* Properties of find_similar_parser and db_look_tables *)

\* find_similar_parser has just answered
SimilarAsked == lastOp.op = "find_similar_parser"

\* the rows of the group method:path whose status is final_response
FinalRowsOf(url, method) ==
    {i \in 1..Len(scrapingEntries) :
        /\ scrapingEntries[i].source_type_key = TargetKey(url, method)
        /\ scrapingEntries[i].processing_status = FinalResponse}

\* C23: for a URL that parses, find_similar_parser answers found: true exactly
\* when some row has source_type_key method:path and status final_response,
\* and then with the filter and converter of the first such row in store
\* order; otherwise found: false; a URL that does not parse gives an error
\* result.
C23_FirstFinalRowOfGroup ==
    SimilarAsked =>
        LET r == lastOp.returned
            finals == FinalRowsOf(lastOp.url, lastOp.method)
        IN  IF ~UrlParses(lastOp.url)
            THEN "error" \in DOMAIN r /\ "found" \notin DOMAIN r
            ELSE /\ "error" \notin DOMAIN r
                 /\ r.found <=> finals # {}
                 /\ r.found =>
                        LET first == CHOOSE i \in finals : \A j \in finals : i <= j
                        IN  /\ r.source_type_key = TargetKey(lastOp.url, lastOp.method)
                            /\ r.has_filter = scrapingEntries[first].has_filter
                            /\ r.has_converter = scrapingEntries[first].has_converter

\* find_similar_parser found a row of a group that has two final rows with
\* different filters
C23_Witness ==
    /\ SimilarAsked
    /\ UrlParses(lastOp.url)
    /\ lastOp.returned.found
    /\ \E i, j \in FinalRowsOf(lastOp.url, lastOp.method) :
            scrapingEntries[i].has_filter # scrapingEntries[j].has_filter

\* C26: find_similar_parser never answers with the filter and converter of a
\* row whose is_deleted is set.
C26_DeletedRowsNotReused ==
    (SimilarAsked /\ UrlParses(lastOp.url) /\ lastOp.returned.found) =>
        ~scrapingEntries[BestMatch(scrapingEntries,
                                   TargetKey(lastOp.url, lastOp.method))].is_deleted

\* the rows that are not deleted
LiveRows == {i \in 1..Len(scrapingEntries) : ~scrapingEntries[i].is_deleted}

\* what C27 says of a listing: one entry per source_type_key of a live row,
\* counting the live rows of the group, with status final_response when a
\* live row of the group is final
ListingAsClaimed(listing) ==
    /\ \A i \in LiveRows : \E g \in 1..Len(listing) :
            listing[g].group_slug = scrapingEntries[i].source_type_key
    /\ \A g, h \in 1..Len(listing) :
            listing[g].group_slug = listing[h].group_slug => g = h
    /\ \A g \in 1..Len(listing) :
            LET members == {i \in LiveRows :
                               scrapingEntries[i].source_type_key = listing[g].group_slug}
            IN  /\ members # {}
                /\ listing[g].count = Cardinality(members)
                /\ (\E i \in members : scrapingEntries[i].processing_status = FinalResponse)
                       => listing[g].status = FinalResponse

\* C27: db_look_tables reports one entry per source_type_key among the
\* non-deleted rows, counts the non-deleted rows of the group, and reports
\* final_response for a group with a non-deleted final row, whatever the order
\* of the rows.
C27_ListingPerGroup ==
    lastOp.op = "db_look_tables" => ListingAsClaimed(lastOp.returned)

\* the same of the implementation that stands second in the file
ListingPerGroupFinalOnly ==
    lastOp.op = "db_look_tables_final_only" => ListingAsClaimed(lastOp.returned)


----------------------------------------------------------------------------
(* Properties of the candidates of the auto-linking *)

\* the links a merge of `batch` appends to the graph kd
AddedByBatch(kd, batch) ==
    LET after == HandleAddEntity(kd, batch)
    IN  { after.links[i] : i \in (Len(kd.links) + 1)..Len(after.links) }

\* C24: when a batch is merged, the candidates for the edges of each of its
\* entities are all nodes of the merged graph, those there before and those of
\* the batch, earlier or later than the entity: every other node whose id is
\* the value of an id-like entry gets the forward edge, and some other node
\* whose data.id is the value gets the reverse edge.
C24_CandidatesAreFullNodeSet ==
    \A batch \in EntityBatches :
        LET after == HandleAddEntity(knowledgeData, batch)
            added == AddedByBatch(knowledgeData, batch)
        IN  \A i \in 1..Len(batch) : \A j \in 1..Len(batch[i].data) :
                LinkingEntry(batch[i], j) =>
                    /\ ForwardMatch(after, batch[i], j) =>
                           Link(batch[i].id, batch[i].data[j][2], batch[i].data[j][1])
                               \in added
                    /\ ReverseMatch(after, batch[i], j) =>
                           \E n \in OtherNodes(after, batch[i]) :
                               /\ Get(n.data, KeyId) = batch[i].data[j][2]
                               /\ Link(n.id, batch[i].id, batch[i].data[j][1]) \in added

\* the same with the candidates the loop has: the nodes there before the
\* merge and the entities of the batch up to the one being linked
CandidatesAreNodesSoFar ==
    \A batch \in EntityBatches :
        LET added == AddedByBatch(knowledgeData, batch)
        IN  \A i \in 1..Len(batch) : \A j \in 1..Len(batch[i].data) :
                LET soFar == HandleAddEntity(knowledgeData, SubSeq(batch, 1, i))
                IN  LinkingEntry(batch[i], j) =>
                        /\ ForwardMatch(soFar, batch[i], j) =>
                               Link(batch[i].id, batch[i].data[j][2], batch[i].data[j][1])
                                   \in added
                        /\ ReverseMatch(soFar, batch[i], j) =>
                               \E n \in OtherNodes(soFar, batch[i]) :
                                   /\ Get(n.data, KeyId) = batch[i].data[j][2]
                                   /\ Link(n.id, batch[i].id, batch[i].data[j][1]) \in added


----------------------------------------------------------------------------
(* Properties of the project store *)

\* the last operation was an import of a document that lacks harEntries or
\* knowledgeData
ImportedLacking(op) ==
    /\ op.op \in {"createProjectFromBackup", "importProjectData"}
    /\ ~op.backup.harEntries \/ op.backup.knowledgeData = "absent"

\* C22: importing a backup document that lacks harEntries or knowledgeData is
\* rejected with the import's error, and nothing of it is applied: no project
\* is created or saved, and the project list, the persisted projects and the
\* active project with its records, graph, chat and rows stay as they were.
C22_InvalidBackupRejected ==
    [][ImportedLacking(lastOp') =>
            /\ storeError' \in {CreateRejected, ImportRejected}
            /\ UNCHANGED <<projects, storage, activeProject, projectsIssued, saveTimeout,
                           harEntries, knowledgeData, scrapingEntries, messages>>]_vars

\* a document without knowledgeData has been imported into a project that an
\* earlier import had changed, and was rejected
C22_Witness ==
    /\ lastOp.op = "importProjectData"
    /\ lastOp.backup.harEntries
    /\ lastOp.backup.knowledgeData = "absent"
    /\ activeProject # NoProject
    /\ activeProject.edits > 0
    /\ storeError = ImportRejected

\* deleteProject(id) has been called and has completed
DeleteCompleted(id) ==
    id \in deleteCalled /\ \A d \in pendingDeletes : d.id # id

\* C28: once mutations have stopped and the pending timer has fired, the
\* persisted copy of every project that was mutated is the copy its last
\* mutation left in memory.
C28_NoMutationLost ==
    saveTimeout = <<>> =>
        \A id \in DOMAIN latest :
            id \notin deleteCalled =>
                id \in DOMAIN storage /\ storage[id] = latest[id]

\* C29: once deleteProject(id) has completed, the project is neither in
\* persistent storage nor in the project list, whatever runs afterwards.
C29_DeletedStaysDeleted ==
    \A id \in deleteCalled :
        DeleteCompleted(id) => id \notin DOMAIN storage /\ id \notin projects

\* the two halves of C29 on their own: the store, the list
DeletedStaysOutOfStorage ==
    \A id \in deleteCalled : DeleteCompleted(id) => id \notin DOMAIN storage
DeletedStaysOutOfList ==
    \A id \in deleteCalled : DeleteCompleted(id) => id \notin projects


----------------------------------------------------------------------------
(* Properties of the chat panel *)

\* the messages after the greeting
Conversation == Tail(messages)

\* C30: at most one runHarAgent of the chat panel is in flight; a send issued
\* while loading is ignored and appends nothing; and the conversation is user
\* message, model message, user message, ...: when no run is in flight every
\* user message is followed by exactly one model message and sending is
\* enabled, and while a run is in flight only the last user message waits for
\* its answer.
C30_OneRunAtATime ==
    /\ agentRuns <= 1
    /\ loading <=> agentRuns = 1
    /\ (lastOp.op = "handleSend" /\ lastOp.ignored) => messages = lastOp.before
    /\ \A i \in 1..Len(Conversation) :
          Conversation[i].role = IF i % 2 = 1 THEN "user" ELSE "model"
    /\ loading <=> Len(Conversation) % 2 = 1

\* one run has ended by throwing and one by returning, each leaving one model
\* message, and a send with text, issued while a third run is in flight, has
\* been ignored
C30_Witness ==
    /\ lastOp.op = "handleSend"
    /\ lastOp.ignored
    /\ ~IsBlank(lastOp.input)
    /\ loading
    /\ agentRuns = 1
    /\ Len(Conversation) = 5
    /\ Conversation[2].text = "Sorry, I encountered an error communicating with Gemini."
    /\ Conversation[4].text = "response"

====
